---------------------------- MODULE Spec2Model ----------------------------
(***************************************************************************)
(* Model of the lead-finder service in src/app.py: the search-leads        *)
(* endpoint and its pipeline (query building, web search through the       *)
(* BrightDataMCP client, extraction by the language-model oracle, lead     *)
(* structuring, confidence scoring and sorting).                           *)
(*                                                                         *)
(* Python strings are sequences of one-character strings, Python dicts are *)
(* functions whose domain is the set of keys present, Python lists are     *)
(* sequences.                                                              *)
(***************************************************************************)
EXTENDS Integers, Sequences, FiniteSets, TLC

VARIABLES
    s_lead,        \* scoring: the lead record handed to calculate_confidence_score
    s_icp,         \* scoring: the ICP criteria handed to calculate_confidence_score
    s_conf,        \* scoring: the value returned (done = FALSE before the call)
    p_client,      \* extraction: whether openai_client is set
    p_results,     \* extraction: the search results handed to the adapter
    p_oracle,      \* extraction: what the oracle call does (raises, or answers text)
    p_out,         \* extraction: what parse_search_results_with_ai returned
    c_session_id,  \* client: BrightDataMCP.session_id ("none" for None)
    c_request_id,  \* client: BrightDataMCP.request_id
    c_pc,          \* client: where the running call_tool invocation stands
    c_depth,       \* client: how many recursive call_tool frames are open
    c_ret,         \* client: what the last top-level call_tool returned
    c_hist,        \* client: requests sent so far (counts, for the claims)
    r_icp,         \* request: icp_data, the JSON body of the request
    r_env,         \* request: whether BRIGHT_DATA_API_TOKEN and openai_client are set
    r_pc,          \* request: where the handling of the request stands
    r_queries,     \* request: the list build_search_queries returned
    r_issued,      \* request: the queries handed to search_web so far, in order
    r_last,        \* request: what call_tool returned to the last search_web
    r_results,     \* request: all_results / search_results
    r_oracle,      \* request: the oracle's answer and how often it was invoked
    r_parsed,      \* request: parsed_leads
    r_response,    \* request: the response returned to the caller
    t_raw,         \* structuring: the raw record handed to structure_lead_data
    t_icp,         \* structuring: the ICP handed to structure_lead_data
    t_out,         \* structuring: the Lead returned, or the exception raised
    q_icp,         \* query building: the ICP handed to build_search_queries
    q_out,         \* query building: the list returned (done = FALSE before the call)
    m_queries,     \* search loop: the queries search_leads_with_mcp iterates over
    m_pc,          \* search loop: where the coroutine stands
    m_started,     \* search loop: how many search_web calls were started
    m_inflight,    \* search loop: the calls started and not yet returned
    m_events,      \* search loop: the calls started, returned and paced, in order
    g_token,       \* two requests: whether BRIGHT_DATA_API_TOKEN is set
    g_mcp_client,  \* two requests: the module global mcp_client ("none" for None)
    k_session,     \* two requests: _http_session of every BrightDataMCP object
    h_pc,          \* two requests: where each request thread stands
    h_left,        \* two requests: the queries each request has still to issue
    h_using,       \* two requests: the client whose search_web each one awaits
    h_own          \* two requests: the client each request created

scoreVars == <<s_lead, s_icp, s_conf>>
parseVars == <<p_client, p_results, p_oracle, p_out>>
toolVars == <<c_session_id, c_request_id, c_pc, c_depth, c_ret, c_hist>>
reqVars == <<r_icp, r_env, r_pc, r_queries, r_issued, r_last, r_results, r_oracle,
             r_parsed, r_response>>
structVars == <<t_raw, t_icp, t_out>>
queryVars == <<q_icp, q_out>>
coreVars == <<scoreVars, parseVars, toolVars, reqVars>>
loopVars == <<m_queries, m_pc, m_started, m_inflight, m_events>>
concVars == <<g_token, g_mcp_client, k_session, h_pc, h_left, h_using, h_own>>
extVars == <<structVars, queryVars, loopVars, concVars>>
vars == <<scoreVars, parseVars, toolVars, reqVars, extVars>>

-----------------------------------------------------------------------------
(* Strings and dicts                                                       *)

Get(d, k, default) == IF k \in DOMAIN d THEN d[k] ELSE default

\* bool(d.get(k)) for string values: the key is present and the string is not empty.
Truthy(d, k) == k \in DOMAIN d /\ d[k] # <<>>

\* The character U+00DF (sharp s): str.lower() keeps it, str.upper() writes
\* it as "SS".
SharpS == "sz"

LowerChar(c) ==
    CASE c = "A" -> "a"
      [] c = "B" -> "b"
      [] c = "C" -> "c"
      [] c = "E" -> "e"
      [] c = "F" -> "f"
      [] c = "I" -> "i"
      [] c = "P" -> "p"
      [] c = "V" -> "v"
      [] c = "N" -> "n"
      [] c = "O" -> "o"
      [] c = "T" -> "t"
      [] c = "U" -> "u"
      [] c = "S" -> "s"
      [] c = "X" -> "x"
      [] OTHER -> c

\* str.lower()
Lower(s) == IF s = <<>> THEN <<>> ELSE [i \in 1..Len(s) |-> LowerChar(s[i])]

\* a in b (substring test)
IsSubstr(a, b) == \E i \in 0..(Len(b) - Len(a)) : SubSeq(b, i + 1, i + Len(a)) = a

RECURSIVE LStrip(_)
LStrip(s) == IF s # <<>> /\ Head(s) = " " THEN LStrip(Tail(s)) ELSE s

RECURSIVE RStrip(_)
RStrip(s) == IF s # <<>> /\ s[Len(s)] = " " THEN RStrip(SubSeq(s, 1, Len(s) - 1)) ELSE s

\* str.strip()
Strip(s) == RStrip(LStrip(s))

RECURSIVE SplitAcc(_, _, _)
SplitAcc(s, sep, cur) ==
    IF s = <<>> THEN <<cur>>
    ELSE IF Head(s) = sep THEN <<cur>> \o SplitAcc(Tail(s), sep, <<>>)
    ELSE SplitAcc(Tail(s), sep, Append(cur, Head(s)))

\* str.split(sep) for a one-character separator
Split(s, sep) == SplitAcc(s, sep, <<>>)

\* str.split() without a separator: the words between runs of whitespace.
SplitWords(s) == SelectSeq(Split(s, " "), LAMBDA w : w # <<>>)

\* str.replace(old, ''): the occurrences of old are cut out, left to right.
RECURSIVE Remove(_, _)
Remove(s, old) ==
    IF Len(s) < Len(old) THEN s
    ELSE IF SubSeq(s, 1, Len(old)) = old
         THEN Remove(SubSeq(s, Len(old) + 1, Len(s)), old)
         ELSE <<Head(s)>> \o Remove(Tail(s), old)

Https == <<"h", "t", "t", "p", "s", ":", "/", "/">>
Http == <<"h", "t", "t", "p", ":", "/", "/">>
Www == <<"w", "w", "w", ".">>

\* x in seq
Has(seq, x) == \E i \in 1..Len(seq) : seq[i] = x

NotFound == <<"N", "o", "t", " ", "f", "o", "u", "n", "d">>
NA == <<"N", "/", "A">>
Sentinels == {NotFound, NA}

Unknown == <<"U", "n", "k", "n", "o", "w", "n">>

\* JSON values that are no strings: a number other than zero and a list that
\* is not empty (both true in a condition).
Number == <<"<number>">>
ListValue == <<"<list>">>
NonStrings == {Number, ListValue}

\* Marks a key left out of a dict when the inputs are enumerated.
Absent == <<"<absent>">>

MkDict(choice) == [k \in {x \in DOMAIN choice : choice[x] # Absent} |-> choice[k]]

-----------------------------------------------------------------------------
(* calculate_confidence_score                                              *)

IndustryPoints == 30
TitlePoints == 25
LocationPoints == 15
EmailPoints == 10
LinkedInPoints == 10
SizePoints == 10
GradeA == 80
GradeB == 60
GradeC == 40
MaxPercentage == 100

IndustryMatch(lead_data, icp_criteria) ==
    LET lead_industry == Lower(Get(lead_data, "company_industry", <<>>))
        target_industry == Lower(Get(icp_criteria, "industry", <<>>))
    IN  lead_industry # <<>> /\ target_industry # <<>>
        /\ IsSubstr(target_industry, lead_industry)

TitleMatch(lead_data, icp_criteria) ==
    LET lead_title == Lower(Get(lead_data, "designation", <<>>))
        target_titles == Split(Lower(Get(icp_criteria, "target_job_title", <<>>)), ",")
    IN  \E i \in 1..Len(target_titles) :
            \/ IsSubstr(Strip(target_titles[i]), lead_title)
            \/ IsSubstr(lead_title, Strip(target_titles[i]))

LocationMatch(lead_data, icp_criteria) ==
    LET lead_location == Lower(Get(lead_data, "company_location", <<>>))
        target_regions == Split(Lower(Get(icp_criteria, "geographic_region", <<>>)), ",")
    IN  \E i \in 1..Len(target_regions) : IsSubstr(Strip(target_regions[i]), lead_location)

EmailAvailable(lead_data) == Truthy(lead_data, "email")

LinkedInAvailable(lead_data) == Truthy(lead_data, "linkedin")

SizeMatch(lead_data, icp_criteria) ==
    LET lead_size == Lower(Get(lead_data, "company_size", <<>>))
        target_size == Lower(Get(icp_criteria, "company_size", <<>>))
    IN  lead_size # <<>> /\ target_size # <<>>
        /\ (IsSubstr(target_size, lead_size) \/ IsSubstr(lead_size, target_size))

GradeOfMutant(score) ==
    IF score > GradeA THEN "A"
    ELSE IF score > GradeB THEN "B"
    ELSE IF score > GradeC THEN "C"
    ELSE "D"

GradeOf(score) ==
    IF score >= GradeA THEN "A"
    ELSE IF score >= GradeB THEN "B"
    ELSE IF score >= GradeC THEN "C"
    ELSE "D"

Min(a, b) == IF a <= b THEN a ELSE b

calculate_confidence_score(lead_data, icp_criteria) ==
    LET hit1 == IndustryMatch(lead_data, icp_criteria)
        hit2 == TitleMatch(lead_data, icp_criteria)
        hit3 == LocationMatch(lead_data, icp_criteria)
        hit4 == EmailAvailable(lead_data)
        hit5 == LinkedInAvailable(lead_data)
        hit6 == SizeMatch(lead_data, icp_criteria)
        score == (IF hit1 THEN IndustryPoints ELSE 0)
                 + (IF hit2 THEN TitlePoints ELSE 0)
                 + (IF hit3 THEN LocationPoints ELSE 0)
                 + (IF hit4 THEN EmailPoints ELSE 0)
                 + (IF hit5 THEN LinkedInPoints ELSE 0)
                 + (IF hit6 THEN SizePoints ELSE 0)
        matches == (IF hit1 THEN <<"Industry match">> ELSE <<>>)
                   \o (IF hit2 THEN <<"Job title match">> ELSE <<>>)
                   \o (IF hit3 THEN <<"Location match">> ELSE <<>>)
                   \o (IF hit4 THEN <<"Email available">> ELSE <<>>)
                   \o (IF hit5 THEN <<"LinkedIn available">> ELSE <<>>)
                   \o (IF hit6 THEN <<"Company size match">> ELSE <<>>)
    IN  [percentage |-> Min(score, MaxPercentage),
         grade |-> GradeOf(score),
         matches |-> matches]

-----------------------------------------------------------------------------
(* Inputs of the scoring specification                                     *)

LeadChoices ==
    [company_industry : {Absent, <<"f", "i", "n">>, <<"F", "I", "N", " ", "x">>,
                         <<"f", "u", SharpS>>},
     designation : {Absent, <<>>, <<"c", "t", "o">>, <<"V", "P">>},
     company_location : {Absent, <<"U", "S">>, <<"e", "u">>},
     email : {Absent, <<>>, NotFound, NA, <<"a", "@", "b">>},
     linkedin : {Absent, NotFound, <<"l", "i">>},
     company_size : {Absent, <<"5", "1">>}]

IcpChoices ==
    [industry : {<<>>, <<"F", "i", "n">>, <<"F", "u", SharpS>>},
     target_job_title : {<<"C", "T", "O">>, <<"c", "e", "o", ",", " ", "c", "t", "o">>,
                         <<"c", "e", "o", ",">>},
     geographic_region : {<<"u", "s">>, <<"a", "s", "i", "a">>},
     company_size : {<<"5", "1", "-", "2">>, <<"9">>}]

NoConf == [done |-> FALSE, percentage |-> 0, grade |-> "", matches |-> <<>>]

ScoreIdle ==
    /\ s_lead = MkDict([email |-> Absent])
    /\ s_icp = [industry |-> <<>>]
    /\ s_conf = NoConf

ScoreInit ==
    /\ s_lead \in {MkDict(c) : c \in LeadChoices}
    /\ s_icp \in IcpChoices
    /\ s_conf = NoConf

ScoreLead ==
    /\ ~s_conf.done
    /\ LET c == calculate_confidence_score(s_lead, s_icp)
       IN  s_conf' = [done |-> TRUE, percentage |-> c.percentage,
                      grade |-> c.grade, matches |-> c.matches]
    /\ UNCHANGED <<s_lead, s_icp>>
    /\ UNCHANGED <<parseVars, toolVars, reqVars, extVars>>

ScoreNext == ScoreLead

-----------------------------------------------------------------------------
(* parse_search_results_with_ai                                            *)
(*                                                                         *)
(* The oracle's answer is a sequence of tokens: the JSON punctuation       *)
(* "[", "]", "{", "}", ",", the atoms "a", "b", "c" (each a JSON value     *)
(* written without any bracket, such as a flat lead object) and "p" (a     *)
(* word of prose, which is no JSON).  Object keys are left out: an object  *)
(* is "{" values "}".  A decoded array is the sequence of its elements,    *)
(* each element the tokens it was written with.                            *)

Atoms == {"a", "b", "c"}
Tokens == {"[", "]", "{", "}", ",", "p"} \cup Atoms

MaxTextLen == 5

RECURSIVE ValueEnd(_, _)
RECURSIVE ItemsEnd(_, _, _, _)

\* The index after the JSON value that starts at t[i]; 0 when there is none.
ValueEnd(t, i) ==
    IF i > Len(t) THEN 0
    ELSE IF t[i] \in Atoms THEN i + 1
    ELSE IF t[i] = "[" THEN ItemsEnd(t, i + 1, "]", TRUE)
    ELSE IF t[i] = "{" THEN ItemsEnd(t, i + 1, "}", TRUE)
    ELSE 0

\* The index after the bracket closing the items that start at t[i]; 0 when malformed.
ItemsEnd(t, i, close, first) ==
    IF i > Len(t) THEN 0
    ELSE IF first /\ t[i] = close THEN i + 1
    ELSE LET e == ValueEnd(t, i)
         IN  IF e = 0 \/ e > Len(t) THEN 0
             ELSE IF t[e] = close THEN e + 1
             ELSE IF t[e] = "," THEN ItemsEnd(t, e + 1, close, FALSE)
             ELSE 0

\* The text is one complete JSON value.
IsJson(t) == t # <<>> /\ ValueEnd(t, 1) = Len(t) + 1

RECURSIVE ElementsFrom(_, _)
ElementsFrom(t, i) ==
    IF t[i] = "]" THEN <<>>
    ELSE LET e == ValueEnd(t, i)
         IN  <<SubSeq(t, i, e - 1)>>
             \o (IF t[e] = "," THEN ElementsFrom(t, e + 1) ELSE <<>>)

\* The elements of a well-formed array text, in order.
Elements(t) == ElementsFrom(t, 2)

\* json.loads on a text that starts with "[": the list, or JSONDecodeError.
json_loads(t) ==
    IF IsJson(t)
    THEN [exc |-> "none", value |-> Elements(t)]
    ELSE [exc |-> "JSONDecodeError", value |-> <<>>]

\* re.search(r'\[[\s\S]*\]', text).group(0): from the first "[" to the last "]"
\* (the star is greedy); the empty sequence stands for no match.
re_search(t) ==
    LET opens == {i \in 1..Len(t) : t[i] = "["}
        closes == {j \in 1..Len(t) : t[j] = "]"}
    IN  IF opens = {} THEN <<>>
        ELSE LET i == CHOOSE x \in opens : \A y \in opens : x <= y
                 later == {j \in closes : j > i}
             IN  IF later = {} THEN <<>>
                 ELSE SubSeq(t, i, CHOOSE x \in later : \A y \in later : y <= x)

\* The body of the try block: the exception it ends with, or the value returned.
ParseTryBody(oracle) ==
    IF oracle.raises THEN [exc |-> "Exception", value |-> <<>>]
    ELSE LET json_match == re_search(oracle.text)
         IN  IF json_match # <<>> THEN json_loads(json_match)
             ELSE [exc |-> "none", value |-> <<>>]

ParseHandlersMutant(r) ==
    IF r.exc = "none" THEN [raised |-> FALSE, value |-> r.value]
    ELSE IF r.exc = "JSONDecodeError" THEN [raised |-> TRUE, value |-> <<>>]
    ELSE [raised |-> FALSE, value |-> <<>>]

\* The except clauses: JSONDecodeError, then Exception; both return [].
ParseHandlers(r) ==
    IF r.exc = "none" THEN [raised |-> FALSE, value |-> r.value]
    ELSE IF r.exc = "JSONDecodeError" THEN [raised |-> FALSE, value |-> <<>>]
    ELSE [raised |-> FALSE, value |-> <<>>]

parse_search_results_with_ai(client, search_results, oracle) ==
    IF ~client THEN [raised |-> FALSE, value |-> <<>>]
    ELSE IF search_results = <<>> THEN [raised |-> FALSE, value |-> <<>>]
    ELSE ParseHandlers(ParseTryBody(oracle))

Texts == UNION {[1..n -> Tokens] : n \in 0..MaxTextLen}

OracleRaises == [raises |-> TRUE, text |-> <<>>]
OracleAnswers(texts) == {[raises |-> FALSE, text |-> t] : t \in texts}

NoParse == [done |-> FALSE, raised |-> FALSE, value |-> <<>>]

ParseIdle ==
    /\ p_client = FALSE
    /\ p_results = <<>>
    /\ p_oracle = OracleRaises
    /\ p_out = NoParse

ParseInit ==
    /\ \/ /\ p_client = TRUE
          /\ p_results = <<"hit">>
          /\ p_oracle \in OracleAnswers(Texts) \cup {OracleRaises}
       \/ /\ p_client \in BOOLEAN
          /\ p_results \in {<<>>, <<"hit">>}
          /\ p_oracle = [raises |-> FALSE, text |-> <<"[", "a", "]">>]
    /\ p_out = NoParse

ParseCall ==
    /\ ~p_out.done
    /\ LET r == parse_search_results_with_ai(p_client, p_results, p_oracle)
       IN  p_out' = [done |-> TRUE, raised |-> r.raised, value |-> r.value]
    /\ UNCHANGED <<p_client, p_results, p_oracle>>
    /\ UNCHANGED <<scoreVars, toolVars, reqVars, extVars>>

ParseNext == ParseCall

-----------------------------------------------------------------------------
(* BrightDataMCP: initialize and call_tool                                 *)
(*                                                                         *)
(* One client object.  Every POST is one step, answered by the server with *)
(* a response drawn from the sets below.  call_tool calls itself after a   *)
(* successful re-initialize and returns what the inner call returns, so    *)
(* the open frames are counted, not stacked.                               *)

MaxDepth == 2
MaxInvocations == 2

OkStatus == 200
NotFoundStatus == 404

\* exc: "none", "connect" (timeout or connection error before any response)
\* or "body" (reading the response body fails); sid: the Mcp-Session-Id header.
InitResponses ==
    [exc : {"none", "connect", "body"}, status : {OkStatus, 500}, sid : {"none", "s1"}]

\* session: the error text holds the word "session".
ToolResponses ==
    [exc : {"none", "timeout", "error"},
     status : {OkStatus, NotFoundStatus, 400, 500},
     session : BOOLEAN]

\* initialize(): the session id it leaves and the boolean it returns.
initialize(r, session_id) ==
    IF r.exc = "connect" THEN [session_id |-> session_id, ok |-> FALSE]
    ELSE IF r.exc = "body" THEN [session_id |-> r.sid, ok |-> FALSE]
    ELSE IF r.status = OkStatus THEN [session_id |-> r.sid, ok |-> TRUE]
    ELSE [session_id |-> r.sid, ok |-> FALSE]

\* The response to tools/call tells the client its session is gone.
SessionInvalidated(r) == r.status = NotFoundStatus \/ r.session

\* calls: call_tool invocations so far; inits, reinits, sends: the initialize
\* requests, the re-initializations after an invalidated session and the
\* tools/call requests of the running invocation; init_ok: an initialize of
\* this client has succeeded.
NoHist == [calls |-> 0, inits |-> 0, reinits |-> 0, sends |-> 0, init_ok |-> FALSE]

ToolIdle ==
    /\ c_session_id = "none"
    /\ c_request_id = 0
    /\ c_pc = "idle"
    /\ c_depth = 0
    /\ c_ret = "none"
    /\ c_hist = NoHist

\* BrightDataMCP.__init__
ToolInit == ToolIdle

\* A caller invokes call_tool on the client.
CallTool ==
    /\ c_pc \in {"idle", "returned"}
    /\ c_hist.calls < MaxInvocations
    /\ c_pc' = "entry"
    /\ c_depth' = 0
    /\ c_ret' = "none"
    /\ c_hist' = [c_hist EXCEPT !.calls = @ + 1, !.inits = 0, !.reinits = 0,
                                !.sends = 0]
    /\ UNCHANGED <<c_session_id, c_request_id>>
    /\ UNCHANGED <<scoreVars, parseVars, reqVars, extVars>>

\* call_tool, first lines: initialize only when there is no session id.
CallToolEntry ==
    /\ c_pc = "entry"
    /\ c_pc' = IF c_session_id = "none" THEN "init" ELSE "send"
    /\ UNCHANGED <<c_session_id, c_request_id, c_depth, c_ret, c_hist>>
    /\ UNCHANGED <<scoreVars, parseVars, reqVars, extVars>>

\* call_tool: `if not await self.initialize(): return {"error": ...}`
CallToolInitialize ==
    /\ c_pc = "init"
    /\ \E r \in InitResponses :
          LET i == initialize(r, c_session_id)
          IN  /\ c_session_id' = i.session_id
              /\ c_hist' = [c_hist EXCEPT !.inits = @ + 1,
                                          !.init_ok = @ \/ i.ok]
              /\ IF i.ok
                 THEN c_pc' = "send" /\ c_ret' = c_ret
                 ELSE c_pc' = "returned" /\ c_ret' = "error_init"
    /\ c_request_id' = c_request_id + 1
    /\ UNCHANGED c_depth
    /\ UNCHANGED <<scoreVars, parseVars, reqVars, extVars>>

\* call_tool: the tools/call POST and what follows from its response.
CallToolSend ==
    /\ c_pc = "send"
    /\ \E r \in ToolResponses :
          /\ IF r.exc = "timeout" THEN
                 c_pc' = "returned" /\ c_ret' = "error_timeout"
                 /\ UNCHANGED c_session_id
             ELSE IF r.exc = "error" THEN
                 c_pc' = "returned" /\ c_ret' = "error_exception"
                 /\ UNCHANGED c_session_id
             ELSE IF r.status = OkStatus THEN
                 c_pc' = "returned" /\ c_ret' = "body"
                 /\ UNCHANGED c_session_id
             ELSE IF SessionInvalidated(r) THEN
                 c_pc' = "reinit" /\ c_ret' = c_ret
                 /\ c_session_id' = "none"
             ELSE
                 c_pc' = "returned" /\ c_ret' = "error_status"
                 /\ UNCHANGED c_session_id
    /\ c_request_id' = c_request_id + 1
    /\ c_hist' = [c_hist EXCEPT !.sends = @ + 1]
    /\ UNCHANGED c_depth
    /\ UNCHANGED <<scoreVars, parseVars, reqVars, extVars>>

\* call_tool: `if await self.initialize(): return await self.call_tool(...)`,
\* else the error of the failed POST is returned.
CallToolReinitialize ==
    /\ c_pc = "reinit"
    /\ \E r \in InitResponses :
          LET i == initialize(r, c_session_id)
          IN  /\ i.ok => c_depth < MaxDepth
              /\ c_session_id' = i.session_id
              /\ c_hist' = [c_hist EXCEPT !.inits = @ + 1,
                                          !.reinits = @ + 1,
                                          !.init_ok = @ \/ i.ok]
              /\ IF i.ok
                 THEN c_pc' = "entry" /\ c_depth' = c_depth + 1 /\ c_ret' = c_ret
                 ELSE c_pc' = "returned" /\ c_depth' = c_depth
                      /\ c_ret' = "error_status"
    /\ c_request_id' = c_request_id + 1
    /\ UNCHANGED <<scoreVars, parseVars, reqVars, extVars>>

ToolNext ==
    \/ CallTool
    \/ CallToolEntry
    \/ CallToolInitialize
    \/ CallToolSend
    \/ CallToolReinitialize

-----------------------------------------------------------------------------
(* build_search_queries                                                    *)

MaxQueries == 8

\* An f-string: the numbered template of the source and the values put in it.
Query(n, args) == [template |-> n, args |-> args]

Take(seq, n) == SubSeq(seq, 1, Min(Len(seq), n))

build_search_queries(icp_data) ==
    LET industry == Get(icp_data, "industry", <<>>)
        job_titles == Split(Get(icp_data, "target_job_title", <<>>), ",")
        regions == Split(Get(icp_data, "geographic_region", <<>>), ",")
        company_size == Get(icp_data, "company_size", <<>>)
        technologies == Get(icp_data, "technology_used", <<>>)
        primary_title == Strip(job_titles[1])
        primary_region == Strip(regions[1])
        q1 == IF primary_title # <<>> /\ industry # <<>> /\ primary_region # <<>>
              THEN <<Query(1, <<primary_title, industry, primary_region>>)>> ELSE <<>>
        q2 == IF industry # <<>> /\ primary_region # <<>>
              THEN <<Query(2, <<industry, primary_region>>)>> ELSE <<>>
        q3 == IF primary_title # <<>> /\ industry # <<>>
              THEN <<Query(3, <<primary_title, industry, primary_region>>)>> ELSE <<>>
        q4 == IF industry # <<>> /\ company_size # <<>>
              THEN <<Query(4, <<company_size, industry, primary_region>>)>> ELSE <<>>
        q5 == IF technologies # <<>> /\ industry # <<>>
              THEN <<Query(5, <<industry, Strip(Split(technologies, ",")[1])>>)>>
              ELSE <<>>
        q6 == IF primary_title # <<>> /\ industry # <<>>
              THEN <<Query(6, <<primary_title, industry, primary_region>>)>> ELSE <<>>
        q7 == IF primary_title # <<>> /\ industry # <<>>
              THEN <<Query(7, <<primary_title, industry, primary_region>>)>> ELSE <<>>
    IN  Take(q1 \o q2 \o q3 \o q4 \o q5 \o q6 \o q7, MaxQueries)

-----------------------------------------------------------------------------
(* BrightDataMCP.search_web                                                *)
(*                                                                         *)
(* What call_tool hands back, by shape.  top: the JSON type of the value   *)
(* ("dict", "list", "null"); error: no "error" key, a string (the error    *)
(* dicts call_tool builds itself) or a dict (a JSON-RPC error object in a  *)
(* 200 response); result: no "result" key, or what result holds: a text    *)
(* block that is a JSON list of `hits` records ("text_list"), a JSON       *)
(* object ("text_object"), no JSON ("text_raw"), content without a text    *)
(* block ("no_text"), an empty value ("falsy"), or a block that is no dict *)
(* ("bad_block").                                                          *)

MaxHits == 1

ToolResult(top, error, result, hits) ==
    [top |-> top, error |-> error, result |-> result, hits |-> hits]

ToolResults ==
    {ToolResult("dict", "str", "absent", 0),
     ToolResult("dict", "dict", "absent", 0),
     ToolResult("dict", "absent", "absent", 0),
     ToolResult("list", "absent", "absent", 0),
     ToolResult("null", "absent", "absent", 0)}
    \cup {ToolResult("dict", "absent", "text_list", n) : n \in 0..MaxHits}
    \cup {ToolResult("dict", "absent", k, 1) : k \in {"text_object", "text_raw", "no_text"}}
    \cup {ToolResult("dict", "absent", k, 0) : k \in {"falsy", "bad_block"}}

Return(v) == [raised |-> "none", value |-> v]
Raise(e) == [raised |-> e, value |-> <<>>]

Hits(n) == [i \in 1..n |-> "hit"]

search_web(result) ==
    IF result.top = "null" THEN Raise("TypeError")
    ELSE IF result.top = "list" THEN Return(<<>>)
    ELSE IF result.error = "str" THEN Return(<<>>)
    ELSE IF result.error = "dict" THEN Raise("TypeError")
    ELSE IF result.result = "absent" THEN Return(<<>>)
    ELSE IF result.result = "text_list" THEN Return(Hits(result.hits))
    ELSE IF result.result \in {"text_object", "text_raw", "no_text"} THEN Return(Hits(1))
    ELSE Return(<<>>)

-----------------------------------------------------------------------------
(* generate_email_patterns, extract_domain_from_url,                       *)
(* calculate_data_completeness, generate_insights, generate_recommendation *)

\* What a key holds when a truthy value is there, else the default (`x or d`).
GetOr(d, k, default) == IF Truthy(d, k) THEN d[k] ELSE default

EmptyDict == [k \in {} |-> <<>>]

generate_email_patterns(name, company_domain) ==
    IF name = <<>> \/ company_domain = <<>> \/ name = NA THEN Return(<<>>)
    ELSE IF name \in NonStrings THEN Raise("AttributeError")
    ELSE LET name_parts == SplitWords(Lower(Strip(name)))
         IN  IF Len(name_parts) < 2 THEN Return(<<>>)
             ELSE LET first == name_parts[1]
                      last == name_parts[Len(name_parts)]
                      domain == Split(Remove(Remove(Remove(company_domain, Www), Http),
                                             Https), "/")[1]
                  IN  Return(<<first \o <<".">> \o last \o <<"@">> \o domain,
                               first \o last \o <<"@">> \o domain,
                               first \o <<"@">> \o domain,
                               <<first[1]>> \o last \o <<"@">> \o domain,
                               first \o <<"_">> \o last \o <<"@">> \o domain,
                               last \o <<".">> \o first \o <<"@">> \o domain,
                               <<first[1], ".">> \o last \o <<"@">> \o domain>>)

extract_domain_from_url(url) ==
    IF url = <<>> THEN Return(<<>>)
    ELSE IF url \in NonStrings THEN Raise("AttributeError")
    ELSE Return(Split(Split(Remove(Remove(Remove(url, Https), Http), Www), "/")[1],
                      "?")[1])

KeyFields ==
    <<"lead_name", "designation", "company_name", "email", "phone", "linkedin",
      "company_about", "company_website", "company_location", "company_size",
      "company_industry">>

CompleteAt == 80
PartialAt == 50

\* `if value and value not in ['N/A', 'Not found', '', 'Unknown']`
Filled(lead_data, field) ==
    LET value == Get(lead_data, field, <<>>)
    IN  value # <<>> /\ value \notin {NA, NotFound, <<>>, Unknown}

calculate_data_completeness(lead_data) ==
    LET total_fields == Len(KeyFields)
        filled_fields == Cardinality({i \in 1..Len(KeyFields) :
                                          Filled(lead_data, KeyFields[i])})
        percentage == IF total_fields > 0 THEN (filled_fields * 100) \div total_fields
                      ELSE 0
    IN  [percentage |-> percentage,
         filled_fields |-> filled_fields,
         total_fields |-> total_fields,
         status |-> IF percentage >= CompleteAt THEN "Complete"
                    ELSE IF percentage >= PartialAt THEN "Partial"
                    ELSE "Limited"]

\* One insight: its fixed text and the value of the lead written into it.
Insight(text, value) == [text |-> text, value |-> value]

generate_insights(lead_data, confidence) ==
    <<Insight(IF confidence.percentage >= 80 THEN "Excellent match"
              ELSE IF confidence.percentage >= 60 THEN "Good match"
              ELSE IF confidence.percentage >= 40 THEN "Partial match"
              ELSE "Low match", <<>>)>>
    \o (IF Has(confidence.matches, "Industry match")
        THEN <<Insight("Industry alignment", Get(lead_data, "company_industry", NA))>>
        ELSE <<>>)
    \o (IF Has(confidence.matches, "Job title match")
        THEN <<Insight("Decision-maker", Get(lead_data, "designation", NA))>>
        ELSE <<>>)
    \o (IF Has(confidence.matches, "Email available")
        THEN <<Insight("Direct contact information available", <<>>)>>
        ELSE <<>>)
    \o (IF Has(confidence.matches, "LinkedIn available")
        THEN <<Insight("LinkedIn profile available for outreach", <<>>)>>
        ELSE <<>>)

generate_recommendation(score) ==
    IF score >= 80 THEN "PRIORITY"
    ELSE IF score >= 60 THEN "QUALIFIED"
    ELSE IF score >= 40 THEN "NURTURE"
    ELSE "RESEARCH"

-----------------------------------------------------------------------------
(* structure_lead_data and the final sort of search_leads                  *)
(*                                                                         *)
(* social_profiles is held as [kind, items]: kind is the JSON type of the  *)
(* value ("dict", "str", "null", "list"), items the mapping of a dict.     *)
(* Fixed texts of the source are written as one element.                   *)

MaxPatterns == 3
DefaultRelevance == 5

WebSearch == <<"Web Search">>
GeneratedPattern == <<"Generated Pattern">>
Now == <<"datetime.now().isoformat()">>

NoProfiles == [kind |-> "dict", items |-> EmptyDict]

\* social_profiles after `if isinstance(social_profiles, str): social_profiles = {}`
SocialProfiles(lead_data) ==
    LET social_profiles == IF "social_profiles" \in DOMAIN lead_data
                           THEN lead_data["social_profiles"] ELSE NoProfiles
    IN  IF social_profiles.kind = "str" THEN NoProfiles ELSE social_profiles

\* social_profiles.get(site, '')
ProfileUrl(social_profiles, site) ==
    IF social_profiles.kind # "dict" THEN Raise("AttributeError")
    ELSE IF site \in DOMAIN social_profiles.items
         THEN Return(social_profiles.items[site])
         ELSE Return(<<>>)

Enriched(raised, email, email_patterns) ==
    [raised |-> raised, email |-> email, email_patterns |-> email_patterns]

\* "Enrich email if not found": the email and the patterns the block leaves.
EnrichEmail(lead_data) ==
    LET email == Get(lead_data, "email", <<>>)
        name == Get(lead_data, "lead_name", <<>>)
        website == Get(lead_data, "company_website", <<>>)
    IN  IF ~(email = <<>> \/ email \in {NotFound, NA, <<>>})
        THEN Enriched("none", email, <<>>)
        ELSE IF ~(name # <<>> /\ website # <<>> /\ name \notin {NA, NotFound})
        THEN Enriched("none", email, <<>>)
        ELSE LET domain == extract_domain_from_url(website)
             IN  IF domain.raised # "none" THEN Enriched(domain.raised, email, <<>>)
                 ELSE IF domain.value = <<>> THEN Enriched("none", email, <<>>)
                 ELSE LET email_patterns == generate_email_patterns(name, domain.value)
                      IN  IF email_patterns.raised # "none"
                          THEN Enriched(email_patterns.raised, email, <<>>)
                          ELSE IF email_patterns.value # <<>>
                          THEN Enriched("none", email_patterns.value[1],
                                        email_patterns.value)
                          ELSE Enriched("none", email, <<>>)

ContactQuality(email, lead_data) ==
    IF \/ email # <<>> /\ email # NotFound
       \/ Truthy(lead_data, "phone") /\ lead_data["phone"] # NotFound
    THEN "High" ELSE "Low"

\* The exception structure_lead_data ends with ("none": it returns the Lead).
StructureException(lead_data) ==
    IF EnrichEmail(lead_data).raised # "none" THEN EnrichEmail(lead_data).raised
    ELSE ProfileUrl(SocialProfiles(lead_data), "twitter").raised

\* The Lead structure_lead_data returns when it raises nothing.
structure_lead_data(lead_data, icp_data) ==
    LET confidence == calculate_confidence_score(lead_data, icp_data)
        social_profiles == SocialProfiles(lead_data)
        enriched == EnrichEmail(lead_data)
        email == enriched.email
        email_patterns == enriched.email_patterns
    IN  [lead |->
           [name |-> Get(lead_data, "lead_name", NA),
            designation |-> Get(lead_data, "designation", NA),
            company_name |-> Get(lead_data, "company_name", NA),
            source |-> IF Truthy(lead_data, "source_url") THEN lead_data["source_url"]
                       ELSE Get(lead_data, "source", WebSearch),
            source_url |-> Get(lead_data, "source_url", <<>>),
            contact_details |->
              [email |-> IF email # <<>> THEN email ELSE NotFound,
               email_patterns |-> IF email_patterns # <<>>
                                  THEN Take(email_patterns, MaxPatterns) ELSE <<>>,
               email_source |-> GetOr(lead_data, "source_url", GeneratedPattern),
               phone |-> GetOr(lead_data, "phone", NotFound),
               linkedin |-> GetOr(lead_data, "linkedin", NotFound)],
            social_profiles |->
              [twitter |-> ProfileUrl(social_profiles, "twitter").value,
               facebook |-> ProfileUrl(social_profiles, "facebook").value,
               github |-> ProfileUrl(social_profiles, "github").value]],
         company |->
           [name |-> Get(lead_data, "company_name", NA),
            about |-> Get(lead_data, "company_about", NA),
            industry |-> Get(lead_data, "company_industry", NA),
            size |-> Get(lead_data, "company_size", NA),
            location |-> Get(lead_data, "company_location", NA),
            website |-> Get(lead_data, "company_website", NA),
            contact_info |-> [email |-> GetOr(lead_data, "company_email", NotFound),
                              phone |-> GetOr(lead_data, "company_phone", NotFound)],
            address |-> GetOr(lead_data, "company_address", NotFound),
            valuation |-> GetOr(lead_data, "company_valuation", NotFound),
            tech_stack |-> GetOr(lead_data, "company_tech", NotFound),
            revenue |-> Get(lead_data, "company_revenue", <<>>),
            founded |-> Get(lead_data, "company_founded", <<>>),
            recent_news |-> Get(lead_data, "recent_news", <<>>),
            source_urls |-> [profile |-> Get(lead_data, "source_url", <<>>),
                             website |-> Get(lead_data, "company_website", <<>>),
                             linkedin |-> Get(lead_data, "linkedin", <<>>)]],
         ai_analysis |->
           [confidence_score |-> confidence.percentage,
            grade |-> confidence.grade,
            matching_criteria |-> confidence.matches,
            insights |-> generate_insights(lead_data, confidence),
            recommendation |-> generate_recommendation(confidence.percentage),
            relevance_score |-> Get(lead_data, "relevance_score", DefaultRelevance)],
         metadata |->
           [source_url |-> Get(lead_data, "source_url", <<>>),
            extraction_timestamp |-> Now,
            data_completeness |-> calculate_data_completeness(lead_data),
            email_generated |-> email_patterns # <<>>,
            contact_quality |-> ContactQuality(email, lead_data)]]

SortKey(x) == x.ai_analysis.confidence_score

\* list.sort(key=..., reverse=True) is stable: an element goes behind the
\* elements whose key is greater or equal.
RECURSIVE InsertDesc(_, _)
InsertDesc(sorted, x) ==
    IF sorted = <<>> THEN <<x>>
    ELSE IF SortKey(Head(sorted)) >= SortKey(x)
         THEN <<Head(sorted)>> \o InsertDesc(Tail(sorted), x)
         ELSE <<x>> \o sorted

RECURSIVE SortDesc(_)
SortDesc(seq) ==
    IF seq = <<>> THEN <<>>
    ELSE InsertDesc(SortDesc(SubSeq(seq, 1, Len(seq) - 1)), seq[Len(seq)])

RECURSIVE InsertBeforeEqual(_, _)
InsertBeforeEqual(sorted, x) ==
    IF sorted = <<>> THEN <<x>>
    ELSE IF SortKey(Head(sorted)) > SortKey(x)
         THEN <<Head(sorted)>> \o InsertBeforeEqual(Tail(sorted), x)
         ELSE <<x>> \o sorted

RECURSIVE SortTiesReversed(_)
SortTiesReversed(seq) ==
    IF seq = <<>> THEN <<>>
    ELSE InsertBeforeEqual(SortTiesReversed(SubSeq(seq, 1, Len(seq) - 1)), seq[Len(seq)])

SortLeadsMutant(structured_leads) == SortTiesReversed(structured_leads)

SortLeads(structured_leads) == SortDesc(structured_leads)

StructureAll(parsed_leads, icp_data) ==
    [i \in 1..Len(parsed_leads) |-> structure_lead_data(parsed_leads[i], icp_data)]

NoLeadsMutant ==
    <<structure_lead_data([lead_name |-> <<"s">>, company_industry |-> <<"f", "i", "n">>],
                          [industry |-> <<"f", "i", "n">>])>>

\* `return []` of search_leads, when the search or the extraction gave nothing.
NoLeads == <<>>

-----------------------------------------------------------------------------
(* search_leads_endpoint, search_leads, search_leads_with_mcp              *)

MaxLeads == 3

RequiredFields ==
    <<"icp_name", "company_size", "industry", "target_job_title", "geographic_region",
      "technology_used", "pain_points", "min_budget", "max_budget">>

FieldSet == {RequiredFields[i] : i \in 1..Len(RequiredFields)}

MissingFieldsMutant(icp_data) ==
    SelectSeq(RequiredFields, LAMBDA f : ~Truthy(icp_data, f))

\* [field for field in required_fields if field not in icp_data]
MissingFields(icp_data) ==
    SelectSeq(RequiredFields, LAMBDA f : f \notin DOMAIN icp_data)

FullIcp(industry, title, region) ==
    [icp_name |-> <<"n">>, company_size |-> <<"5", "1">>, industry |-> industry,
     target_job_title |-> title, geographic_region |-> region,
     technology_used |-> <<"a", "w", "s">>, pain_points |-> <<"x">>,
     min_budget |-> <<"0">>, max_budget |-> <<"1">>]

IcpBodies ==
    {FullIcp(<<"F", "i", "n">>, <<"C", "T", "O">>, <<"U", "S">>),
     FullIcp(<<>>, <<"C", "T", "O">>, <<"U", "S">>),
     FullIcp(<<"F", "i", "n">>, <<"C", "T", "O">>, <<>>),
     FullIcp(<<"F", "i", "n">>, <<>>, <<"U", "S">>)}

Restrict(d, keys) == [k \in keys |-> d[k]]

\* The raw record each atom of the oracle's answer stands for.
RawRecord(element) ==
    CASE element = <<"a">> ->
           [lead_name |-> <<"a">>, designation |-> <<"V", "P">>,
            company_industry |-> <<"f", "i", "n">>]
      [] element = <<"b">> ->
           [lead_name |-> <<"b">>, designation |-> <<"v", "p">>,
            company_industry |-> <<"F", "I", "N", " ", "x">>]
      [] OTHER ->
           [lead_name |-> <<"c">>, designation |-> <<"c", "t", "o">>,
            company_industry |-> <<"f", "i", "n">>, email |-> <<"a", "@", "b">>]

RECURSIVE Join(_)
Join(seq) ==
    IF seq = <<>> THEN <<>>
    ELSE IF Len(seq) = 1 THEN <<seq[1]>>
    ELSE <<seq[1], ",">> \o Join(Tail(seq))

ArrayText(atoms) == <<"[">> \o Join(atoms) \o <<"]">>

RequestOracles ==
    {OracleRaises}
    \cup OracleAnswers({<<"p">>})
    \cup OracleAnswers({ArrayText(a) : a \in UNION {[1..n -> Atoms] : n \in 0..MaxLeads}})

NoResponse ==
    [status |-> 0, keys |-> {}, success |-> FALSE, error |-> <<>>, icp_name |-> <<>>,
     total_leads |-> 0, leads |-> <<>>]

ReqIdle ==
    /\ r_icp = Restrict(FullIcp(<<>>, <<>>, <<>>), {})
    /\ r_env = [token |-> FALSE, openai |-> FALSE]
    /\ r_pc = "idle"
    /\ r_queries = <<>>
    /\ r_issued = <<>>
    /\ r_last = ToolResult("none", "absent", "absent", 0)
    /\ r_results = <<>>
    /\ r_oracle = [calls |-> 0, answer |-> OracleRaises]
    /\ r_parsed = <<>>
    /\ r_response = NoResponse

\* A request arrives: any of the nine fields may be missing from its body.
ReqInit ==
    /\ \E body \in IcpBodies : \E present \in SUBSET FieldSet :
          r_icp = Restrict(body, present)
    /\ r_env \in [token : BOOLEAN, openai : BOOLEAN]
    /\ r_pc = "received"
    /\ r_queries = <<>>
    /\ r_issued = <<>>
    /\ r_last = ToolResult("none", "absent", "absent", 0)
    /\ r_results = <<>>
    /\ r_oracle = [calls |-> 0, answer |-> OracleRaises]
    /\ r_parsed = <<>>
    /\ r_response = NoResponse

\* jsonify({'error': error_msg}), 400: the message lists the missing fields.
BadRequest(missing_fields) ==
    [status |-> 400, keys |-> {"error"}, success |-> FALSE, error |-> missing_fields,
     icp_name |-> <<>>, total_leads |-> 0, leads |-> <<>>]

\* jsonify({'success': True, ...})
Success(icp_data, leads) ==
    [status |-> OkStatus,
     keys |-> {"success", "icp_name", "timestamp", "total_leads", "leads"},
     success |-> TRUE, error |-> <<>>, icp_name |-> icp_data["icp_name"],
     total_leads |-> Len(leads), leads |-> leads]

\* jsonify({'success': False, 'error': str(e)}), 500
ServerError(e) ==
    [status |-> 500, keys |-> {"success", "error"}, success |-> FALSE, error |-> <<e>>,
     icp_name |-> <<>>, total_leads |-> 0, leads |-> <<>>]

\* search_leads_endpoint up to the validation of the required fields.
ValidateRequest ==
    /\ r_pc = "received"
    /\ LET missing_fields == MissingFields(r_icp)
       IN  IF missing_fields # <<>>
           THEN r_pc' = "responded" /\ r_response' = BadRequest(missing_fields)
           ELSE r_pc' = "validated" /\ r_response' = r_response
    /\ UNCHANGED <<r_icp, r_env, r_queries, r_issued, r_last, r_results, r_oracle,
                   r_parsed>>
    /\ UNCHANGED <<scoreVars, parseVars, toolVars, extVars>>

\* search_leads calls search_leads_with_mcp: without a token it returns [] and
\* search_leads returns []; otherwise the queries are built.
StartSearch ==
    /\ r_pc = "validated"
    /\ IF ~r_env.token
       THEN /\ r_pc' = "responded"
            /\ r_response' = Success(r_icp, NoLeads)
            /\ UNCHANGED r_queries
       ELSE /\ r_pc' = "searching"
            /\ r_queries' = build_search_queries(r_icp)
            /\ UNCHANGED r_response
    /\ UNCHANGED <<r_icp, r_env, r_issued, r_last, r_results, r_oracle, r_parsed>>
    /\ UNCHANGED <<scoreVars, parseVars, toolVars, extVars>>

\* One turn of the loop of search_leads_with_mcp: search_web for the next query
\* (and the pacing sleep); an exception of search_web is caught by the endpoint.
SearchQuery ==
    /\ r_pc = "searching"
    /\ Len(r_issued) < Len(r_queries)
    /\ \E result \in ToolResults :
          LET results == search_web(result)
          IN  /\ r_last' = result
              /\ r_issued' = Append(r_issued, r_queries[Len(r_issued) + 1])
              /\ IF results.raised # "none"
                 THEN /\ r_pc' = "responded"
                      /\ r_response' = ServerError(results.raised)
                      /\ UNCHANGED r_results
                 ELSE /\ r_pc' = r_pc
                      /\ r_response' = r_response
                      /\ r_results' = r_results \o results.value
    /\ UNCHANGED <<r_icp, r_env, r_queries, r_oracle, r_parsed>>
    /\ UNCHANGED <<scoreVars, parseVars, toolVars, extVars>>

\* search_leads_with_mcp returns all_results; search_leads returns [] for none.
FinishSearch ==
    /\ r_pc = "searching"
    /\ Len(r_issued) = Len(r_queries)
    /\ IF r_results = <<>>
       THEN r_pc' = "responded" /\ r_response' = Success(r_icp, NoLeads)
       ELSE r_pc' = "extract" /\ r_response' = r_response
    /\ UNCHANGED <<r_icp, r_env, r_queries, r_issued, r_last, r_results, r_oracle,
                   r_parsed>>
    /\ UNCHANGED <<scoreVars, parseVars, toolVars, extVars>>

\* search_leads, step 2: parse_search_results_with_ai; [] for no parsed leads.
Extract ==
    /\ r_pc = "extract"
    /\ \E oracle \in RequestOracles :
          LET out == parse_search_results_with_ai(r_env.openai, r_results, oracle)
              invoked == r_env.openai /\ r_results # <<>>
          IN  /\ r_oracle' = IF invoked
                             THEN [calls |-> r_oracle.calls + 1, answer |-> oracle]
                             ELSE r_oracle
              /\ IF out.raised
                 THEN /\ r_pc' = "responded"
                      /\ r_response' = ServerError("Exception")
                      /\ UNCHANGED r_parsed
                 ELSE IF out.value = <<>>
                 THEN /\ r_pc' = "responded"
                      /\ r_response' = Success(r_icp, NoLeads)
                      /\ UNCHANGED r_parsed
                 ELSE /\ r_pc' = "structure"
                      /\ r_response' = r_response
                      /\ r_parsed' = [i \in 1..Len(out.value) |-> RawRecord(out.value[i])]
    /\ UNCHANGED <<r_icp, r_env, r_queries, r_issued, r_last, r_results>>
    /\ UNCHANGED <<scoreVars, parseVars, toolVars, extVars>>

\* search_leads, step 3: structure every record, sort, return; the endpoint
\* wraps the list in the success envelope.
StructureAndSort ==
    /\ r_pc = "structure"
    /\ r_pc' = "responded"
    /\ r_response' =
          IF \E i \in 1..Len(r_parsed) : StructureException(r_parsed[i]) # "none"
          THEN ServerError("AttributeError")
          ELSE Success(r_icp, SortLeads(StructureAll(r_parsed, r_icp)))
    /\ UNCHANGED <<r_icp, r_env, r_queries, r_issued, r_last, r_results, r_oracle,
                   r_parsed>>
    /\ UNCHANGED <<scoreVars, parseVars, toolVars, extVars>>

ReqNext ==
    \/ ValidateRequest
    \/ StartSearch
    \/ SearchQuery
    \/ FinishSearch
    \/ Extract
    \/ StructureAndSort

-----------------------------------------------------------------------------
(* Inputs of the structuring specification                                 *)

AlBo == <<"A", "l", " ", "B", "o">>
AcmeUrl == Https \o Www \o <<"a", ".", "i", "o", "/", "x">>

RawChoices ==
    [lead_name : {Absent, <<>>, NA, <<"A", "l">>, AlBo, Number},
     company_website : {Absent, NA, NotFound, AcmeUrl, <<"a", ".", "i", "o">>, ListValue},
     email : {Absent, <<>>, NA, NotFound, <<"a", "@", "b">>},
     phone : {Absent, NA, NotFound, <<"5">>},
     company_revenue : {Absent, <<"1">>}]

\* The other fields of a raw record, all filled.
OtherFields ==
    [designation |-> <<"c", "t", "o">>, company_name |-> <<"a">>,
     linkedin |-> <<"l", "i">>, company_about |-> <<"x">>,
     company_location |-> <<"U", "S">>, company_size |-> <<"5", "1">>,
     company_industry |-> <<"f", "i", "n">>]

SocialChoices ==
    {[kind |-> "absent", items |-> EmptyDict],
     [kind |-> "str", items |-> EmptyDict],
     [kind |-> "null", items |-> EmptyDict],
     [kind |-> "list", items |-> EmptyDict],
     [kind |-> "dict", items |-> EmptyDict],
     [kind |-> "dict", items |-> [twitter |-> <<"t">>]]}

Merge(d1, d2) ==
    [k \in DOMAIN d1 \cup DOMAIN d2 |-> IF k \in DOMAIN d1 THEN d1[k] ELSE d2[k]]

WithSocial(d, social_profiles) ==
    IF social_profiles.kind = "absent" THEN d
    ELSE [k \in DOMAIN d \cup {"social_profiles"} |->
             IF k = "social_profiles" THEN social_profiles ELSE d[k]]

RawRecords ==
    {WithSocial(Merge(MkDict(c), rest), sp) :
         c \in RawChoices, rest \in {EmptyDict, OtherFields}, sp \in SocialChoices}

NoLead == [done |-> FALSE, raised |-> "none", lead |-> <<>>]

StructIdle ==
    /\ t_raw = EmptyDict
    /\ t_icp = [industry |-> <<>>]
    /\ t_out = NoLead

StructInit ==
    /\ t_raw \in RawRecords
    /\ t_icp = FullIcp(<<"F", "i", "n">>, <<"C", "T", "O">>, <<"U", "S">>)
    /\ t_out = NoLead

\* One call of structure_lead_data.
StructureLead ==
    /\ ~t_out.done
    /\ t_out' = IF StructureException(t_raw) # "none"
                THEN [done |-> TRUE, raised |-> StructureException(t_raw), lead |-> <<>>]
                ELSE [done |-> TRUE, raised |-> "none",
                      lead |-> structure_lead_data(t_raw, t_icp)]
    /\ UNCHANGED <<t_raw, t_icp>>
    /\ UNCHANGED <<coreVars, queryVars, loopVars, concVars>>

StructNext == StructureLead

-----------------------------------------------------------------------------
(* Inputs of the query-building specification                              *)

QueryIcpChoices ==
    [industry : {Absent, <<>>, <<"F", "i", "n">>, <<" ">>},
     target_job_title : {Absent, <<>>, <<"C", "T", "O">>,
                         <<" ", "C", "T", "O", ",", "V", "P">>, <<",", "V", "P">>, <<" ">>},
     geographic_region : {Absent, <<>>, <<"U", "S">>, <<"U", "S", ",", " ", "E", "U">>,
                          <<" ">>},
     company_size : {Absent, <<>>, <<"5", "1">>},
     technology_used : {Absent, <<>>, <<"a", "w", "s">>,
                        <<"a", "w", "s", ",", " ", "g", "c", "p">>,
                        <<",", "a", "w", "s">>, <<" ">>}]

NoQueries == [done |-> FALSE, queries |-> <<>>]

QueryIdle ==
    /\ q_icp = EmptyDict
    /\ q_out = NoQueries

QueryInit ==
    /\ q_icp \in {MkDict(c) : c \in QueryIcpChoices}
    /\ q_out = NoQueries

\* One call of build_search_queries.
BuildQueries ==
    /\ ~q_out.done
    /\ q_out' = [done |-> TRUE, queries |-> build_search_queries(q_icp)]
    /\ UNCHANGED q_icp
    /\ UNCHANGED <<coreVars, structVars, loopVars, concVars>>

QueryNext == BuildQueries

-----------------------------------------------------------------------------
(* The loop of search_leads_with_mcp, one await at a time                  *)
(*                                                                         *)
(* The coroutine awaits search_web for a query, then awaits the pacing     *)
(* sleep, then takes the next query.  A call ends with results, with none, *)
(* with a failure search_web turns into no results, or with an exception   *)
(* that leaves the loop.                                                   *)

CallOutcomes == {"results", "empty", "failure", "raise"}

Event(kind, query, outcome) == [kind |-> kind, query |-> query, outcome |-> outcome]

AfterCallMutant == "loop"

\* After search_web returns the coroutine awaits asyncio.sleep(0.5).
AfterCall == "sleeping"

LoopIdle ==
    /\ m_queries = <<>>
    /\ m_pc = "idle"
    /\ m_started = 0
    /\ m_inflight = {}
    /\ m_events = <<>>

LoopInit ==
    /\ m_queries \in {build_search_queries(body) : body \in IcpBodies}
    /\ m_pc = "loop"
    /\ m_started = 0
    /\ m_inflight = {}
    /\ m_events = <<>>

\* `for query in queries: results = await mcp_client.search_web(query, ...)`
StartCall ==
    /\ m_pc = "loop"
    /\ m_started < Len(m_queries)
    /\ m_started' = m_started + 1
    /\ m_inflight' = m_inflight \cup {m_started + 1}
    /\ m_events' = Append(m_events, Event("start", m_started + 1, "none"))
    /\ m_pc' = "in_call"
    /\ UNCHANGED m_queries
    /\ UNCHANGED <<coreVars, structVars, queryVars, concVars>>

\* The awaited search_web call ends.
CallReturns ==
    /\ m_pc = "in_call"
    /\ \E i \in m_inflight : \E outcome \in CallOutcomes :
          /\ m_inflight' = m_inflight \ {i}
          /\ m_events' = Append(m_events, Event("return", i, outcome))
          /\ m_pc' = IF outcome = "raise" THEN "raised" ELSE AfterCall
    /\ UNCHANGED <<m_queries, m_started>>
    /\ UNCHANGED <<coreVars, structVars, queryVars, concVars>>

\* `await asyncio.sleep(0.5)` ends.
SleepElapses ==
    /\ m_pc = "sleeping"
    /\ m_events' = Append(m_events, Event("slept", m_started, "none"))
    /\ m_pc' = "loop"
    /\ UNCHANGED <<m_queries, m_started, m_inflight>>
    /\ UNCHANGED <<coreVars, structVars, queryVars, concVars>>

\* `return all_results`
LoopReturns ==
    /\ m_pc = "loop"
    /\ m_started = Len(m_queries)
    /\ m_pc' = "returned"
    /\ UNCHANGED <<m_queries, m_started, m_inflight, m_events>>
    /\ UNCHANGED <<coreVars, structVars, queryVars, concVars>>

LoopNext ==
    \/ StartCall
    \/ CallReturns
    \/ SleepElapses
    \/ LoopReturns

-----------------------------------------------------------------------------
(* Two requests of the search-leads endpoint handled at the same time      *)
(*                                                                         *)
(* The server handles each request in a thread of its own.  Every thread   *)
(* runs search_leads in an event loop of its own and afterwards closes     *)
(* whatever client the module global mcp_client names.  Clients: "c0" is   *)
(* the one made at start-up, "c1" and "c2" are made by requests 1 and 2.   *)

MaxPending == 2

Requests == {1, 2}
Clients == {"c0", "c1", "c2"}

ClientOf(r) == IF r = 1 THEN "c1" ELSE "c2"

ConcIdle ==
    /\ g_token = FALSE
    /\ g_mcp_client = "none"
    /\ k_session = [c \in Clients |-> "none"]
    /\ h_pc = [r \in Requests |-> "idle"]
    /\ h_left = [r \in Requests |-> 0]
    /\ h_using = [r \in Requests |-> "none"]
    /\ h_own = [r \in Requests |-> "none"]

\* Both requests have passed validation; the start-up client exists only
\* when the token is configured.
ConcInit ==
    /\ g_token \in BOOLEAN
    /\ g_mcp_client \in {"none", "c0"}
    /\ g_mcp_client = "c0" => g_token
    /\ k_session = [c \in Clients |-> "none"]
    /\ h_pc = [r \in Requests |-> "validated"]
    /\ h_left \in [Requests -> 0..MaxPending]
    /\ h_using = [r \in Requests |-> "none"]
    /\ h_own = [r \in Requests |-> "none"]

\* search_leads_with_mcp, first lines: without a token it returns [];
\* otherwise `mcp_client = BrightDataMCP(BRIGHT_DATA_API_TOKEN)` (the global).
CreateClient(r) ==
    /\ h_pc[r] = "validated"
    /\ IF g_token
       THEN /\ g_mcp_client' = ClientOf(r)
            /\ h_own' = [h_own EXCEPT ![r] = ClientOf(r)]
            /\ h_pc' = [h_pc EXCEPT ![r] = "loop"]
       ELSE /\ h_pc' = [h_pc EXCEPT ![r] = "cleanup"]
            /\ UNCHANGED <<g_mcp_client, h_own>>
    /\ UNCHANGED <<g_token, k_session, h_left, h_using>>
    /\ UNCHANGED <<coreVars, structVars, queryVars, loopVars>>

\* `await mcp_client.search_web(query, count=15)`: the global is read anew
\* for every query, and _get_session opens a session when the client has
\* none or a closed one.
BeginSearch(r) ==
    /\ h_pc[r] = "loop"
    /\ h_left[r] > 0
    /\ h_using' = [h_using EXCEPT ![r] = g_mcp_client]
    /\ k_session' = [k_session EXCEPT ![g_mcp_client] = "open"]
    /\ h_pc' = [h_pc EXCEPT ![r] = "in_call"]
    /\ UNCHANGED <<g_token, g_mcp_client, h_left, h_own>>
    /\ UNCHANGED <<coreVars, structVars, queryVars, loopVars>>

\* The awaited search_web returns (with results or without) and the pacing
\* sleep ends.
EndSearch(r) ==
    /\ h_pc[r] = "in_call"
    /\ h_using' = [h_using EXCEPT ![r] = "none"]
    /\ h_left' = [h_left EXCEPT ![r] = @ - 1]
    /\ h_pc' = [h_pc EXCEPT ![r] = "loop"]
    /\ UNCHANGED <<g_token, g_mcp_client, k_session, h_own>>
    /\ UNCHANGED <<coreVars, structVars, queryVars, loopVars>>

\* The loop is over; search_leads returns to the endpoint's finally clause.
LeaveLoop(r) ==
    /\ h_pc[r] = "loop"
    /\ h_left[r] = 0
    /\ h_pc' = [h_pc EXCEPT ![r] = "cleanup"]
    /\ UNCHANGED <<g_token, g_mcp_client, k_session, h_left, h_using, h_own>>
    /\ UNCHANGED <<coreVars, structVars, queryVars, loopVars>>

\* BrightDataMCP.close(): an open session is closed.
close(sessions, client) ==
    IF sessions[client] = "open" THEN [sessions EXCEPT ![client] = "closed"]
    ELSE sessions

\* finally: `if mcp_client: loop.run_until_complete(mcp_client.close())`, then
\* the response is returned.  Closing a session that another thread's event
\* loop is using may also fail, and the failure is swallowed.
Cleanup(r) ==
    /\ h_pc[r] = "cleanup"
    /\ IF g_mcp_client = "none" THEN UNCHANGED k_session
       ELSE \/ k_session' = close(k_session, g_mcp_client)
            \/ /\ \E o \in Requests \ {r} : h_using[o] = g_mcp_client
               /\ UNCHANGED k_session
    /\ h_pc' = [h_pc EXCEPT ![r] = "responded"]
    /\ UNCHANGED <<g_token, g_mcp_client, h_left, h_using, h_own>>
    /\ UNCHANGED <<coreVars, structVars, queryVars, loopVars>>

ConcNext ==
    \E r \in Requests :
        \/ CreateClient(r)
        \/ BeginSearch(r)
        \/ EndSearch(r)
        \/ LeaveLoop(r)
        \/ Cleanup(r)

-----------------------------------------------------------------------------
(* Specifications                                                          *)

\* The state of the specifications below while another one runs.
CoreIdle == ScoreIdle /\ ParseIdle /\ ToolIdle /\ ReqIdle
ExtIdle == StructIdle /\ QueryIdle /\ LoopIdle /\ ConcIdle

InitScore == ScoreInit /\ ParseIdle /\ ToolIdle /\ ReqIdle /\ ExtIdle
SpecScore == InitScore /\ [][ScoreNext]_vars

InitParse == ParseInit /\ ScoreIdle /\ ToolIdle /\ ReqIdle /\ ExtIdle
SpecParse == InitParse /\ [][ParseNext]_vars

InitCallTool == ToolInit /\ ScoreIdle /\ ParseIdle /\ ReqIdle /\ ExtIdle
SpecCallTool == InitCallTool /\ [][ToolNext]_vars

InitRequest == ReqInit /\ ScoreIdle /\ ParseIdle /\ ToolIdle /\ ExtIdle
Spec == InitRequest /\ [][ReqNext]_vars

InitStructure == StructInit /\ CoreIdle /\ QueryIdle /\ LoopIdle /\ ConcIdle
SpecStructure == InitStructure /\ [][StructNext]_vars

InitQueries == QueryInit /\ CoreIdle /\ StructIdle /\ LoopIdle /\ ConcIdle
SpecQueries == InitQueries /\ [][QueryNext]_vars

InitSearchLoop == LoopInit /\ CoreIdle /\ StructIdle /\ QueryIdle /\ ConcIdle
SpecSearchLoop == InitSearchLoop /\ [][LoopNext]_vars

InitConcurrent == ConcInit /\ CoreIdle /\ StructIdle /\ QueryIdle /\ LoopIdle
SpecConcurrent == InitConcurrent /\ [][ConcNext]_vars

-----------------------------------------------------------------------------
(* Claims about calculate_confidence_score (checked under SpecScore)       *)

RealValue(d, k) == k \in DOMAIN d /\ d[k] # <<>> /\ d[k] \notin Sentinels

\* C5: the percentage returned is in [0,100] and the grade is A exactly for a
\* percentage of 80 or more, B for 60..79, C for 40..59 and D below 40.
C5_PercentageAndGrade ==
    s_conf.done =>
        /\ s_conf.percentage \in 0..100
        /\ s_conf.grade \in {"A", "B", "C", "D"}
        /\ (s_conf.grade = "A") <=> (s_conf.percentage >= 80)
        /\ (s_conf.grade = "B") <=> (s_conf.percentage \in 60..79)
        /\ (s_conf.grade = "C") <=> (s_conf.percentage \in 40..59)
        /\ (s_conf.grade = "D") <=> (s_conf.percentage < 40)

\* A lead scored at exactly the A boundary.
C5_Witness == s_conf.done /\ s_conf.percentage = 80 /\ s_conf.grade = "A"

\* C6: the email points and label are given only for an email that is present
\* and no sentinel, the LinkedIn points and label only for a LinkedIn value
\* that is present and no sentinel.
C6_ContactPointsOnlyForRealValues ==
    s_conf.done =>
        /\ Has(s_conf.matches, "Email available") => RealValue(s_lead, "email")
        /\ Has(s_conf.matches, "LinkedIn available") => RealValue(s_lead, "linkedin")
        /\ s_conf.percentage =
               (IF Has(s_conf.matches, "Industry match") THEN 30 ELSE 0)
               + (IF Has(s_conf.matches, "Job title match") THEN 25 ELSE 0)
               + (IF Has(s_conf.matches, "Location match") THEN 15 ELSE 0)
               + (IF Has(s_conf.matches, "Company size match") THEN 10 ELSE 0)
               + (IF RealValue(s_lead, "email") THEN 10 ELSE 0)
               + (IF RealValue(s_lead, "linkedin") THEN 10 ELSE 0)

-----------------------------------------------------------------------------
(* Claims about parse_search_results_with_ai (checked under SpecParse)     *)

ProseTokens == {"p", "[", "]"}

IsProse(t) == \A i \in 1..Len(t) : t[i] \in ProseTokens

IsArrayText(t) == t # <<>> /\ t[1] = "[" /\ IsJson(t)

OracleAnswered == p_out.done /\ p_client /\ p_results # <<>> /\ ~p_oracle.raises

\* A well-formed array is written from position i of the text.
ArrayStartsAt(t, i) == \E j \in i..Len(t) : IsArrayText(SubSeq(t, i, j))

\* C8: an answer made of prose (which may hold "[" or "]"), one valid JSON
\* array and more prose decodes to exactly that array, the first balanced
\* array literal of the text.
C8_EmbeddedArrayDecoded ==
    OracleAnswered =>
        \A i \in 1..Len(p_oracle.text) : \A j \in i..Len(p_oracle.text) :
            ( /\ IsArrayText(SubSeq(p_oracle.text, i, j))
              /\ \A k \in 1..(i - 1) : ~ArrayStartsAt(p_oracle.text, k)
              /\ IsProse(SubSeq(p_oracle.text, 1, i - 1))
              /\ IsProse(SubSeq(p_oracle.text, j + 1, Len(p_oracle.text))) )
            => ( /\ ~p_out.raised
                 /\ p_out.value = Elements(SubSeq(p_oracle.text, i, j)) )

\* Some part of the text is a well-formed array.
ContainsArray(t) ==
    \E i \in 1..Len(t) : \E j \in i..Len(t) : IsArrayText(SubSeq(t, i, j))

\* C9: the adapter never raises; a failed oracle call, an answer without an
\* array and a malformed located array each give the empty sequence.
C9_NeverRaisesEmptyOnFailure ==
    p_out.done =>
        /\ ~p_out.raised
        /\ (p_client /\ p_results # <<>>) =>
              /\ p_oracle.raises => p_out.value = <<>>
              /\ (~p_oracle.raises /\ ~ContainsArray(p_oracle.text))
                    => p_out.value = <<>>
              /\ ( /\ ~p_oracle.raises
                   /\ re_search(p_oracle.text) # <<>>
                   /\ ~IsJson(re_search(p_oracle.text)) )
                    => p_out.value = <<>>

\* The adapter located an array text that does not decode.
C9_Witness ==
    /\ OracleAnswered
    /\ re_search(p_oracle.text) # <<>>
    /\ ~IsJson(re_search(p_oracle.text))
    /\ p_out.value = <<>>
    /\ ~p_out.raised

\* The whole answer is one JSON object: an atom, or "{" ... "}".
IsSingleObject(t) == IsJson(t) /\ t[1] # "["

\* C10: an answer that is a single JSON object gives the one-element sequence
\* holding that object.
C10_SingleObjectWrapped ==
    (OracleAnswered /\ IsSingleObject(p_oracle.text))
        => (~p_out.raised /\ p_out.value = <<p_oracle.text>>)

-----------------------------------------------------------------------------
(* Claims about BrightDataMCP.call_tool (checked under SpecCallTool)       *)

\* C3: within one call_tool invocation a session-invalidated response leads
\* to at most one re-initialize and one retry of the tool call.
C3_AtMostOneRetry == c_hist.reinits <= 1 /\ c_hist.sends <= 2

-----------------------------------------------------------------------------
(* Claims about the search-leads request (checked under Spec)              *)

PosIn(seq, x) == CHOOSE i \in 1..Len(seq) : seq[i] = x

\* The required fields the request body lacks.
MissingSet == FieldSet \ DOMAIN r_icp

\* The response is the 400 error naming exactly the missing fields, once each.
ReportsExactlyMissing ==
    /\ r_pc = "responded"
    /\ r_response.status = 400
    /\ {r_response.error[i] : i \in 1..Len(r_response.error)} = MissingSet
    /\ Len(r_response.error) = Cardinality(MissingSet)

\* No query went to the search gateway and the oracle was not invoked.
NoSearchAttempted == r_issued = <<>> /\ r_queries = <<>> /\ r_oracle.calls = 0

\* The names follow each other as in `order`.
ErrorOrderedBy(order) ==
    \A i \in 1..Len(r_response.error) : \A j \in 1..Len(r_response.error) :
        i < j => PosIn(order, r_response.error[i]) < PosIn(order, r_response.error[j])

AlphabeticalFields ==
    <<"company_size", "geographic_region", "icp_name", "industry", "max_budget",
      "min_budget", "pain_points", "target_job_title", "technology_used">>

\* C1 (as amended): a request lacking required fields is answered with the 400
\* error that names exactly the missing fields, in the order of the endpoint's
\* required_fields list, and nothing is searched or extracted for it.
C1_MissingFieldsInRequiredOrder ==
    (r_pc # "received" /\ MissingSet # {}) =>
        /\ ReportsExactlyMissing
        /\ NoSearchAttempted
        /\ ErrorOrderedBy(RequiredFields)

\* A request lacking several fields has been refused.
C1_Witness ==
    /\ r_pc = "responded"
    /\ r_response.status = 400
    /\ Cardinality(MissingSet) >= 2
    /\ Len(r_response.error) >= 2

\* C1 (as stated): the missing fields are named as the sorted list of their names.
C1_MissingFieldsSorted ==
    (r_pc # "received" /\ MissingSet # {}) =>
        /\ ReportsExactlyMissing
        /\ NoSearchAttempted
        /\ ErrorOrderedBy(AlphabeticalFields)

\* A valid request is answered: every built query was issued, nothing was
\* raised, and the search gave no results or the extraction no records.
NothingFound ==
    /\ r_pc = "responded"
    /\ MissingSet = {}
    /\ r_env.token
    /\ r_issued = r_queries
    /\ r_response.status # 500
    /\ (r_results = <<>> \/ r_parsed = <<>>)

SearchCallFailed ==
    /\ r_last.top # "none"
    /\ \/ r_last.top # "dict"
       \/ r_last.error # "absent"
       \/ r_last.result \in {"absent", "bad_block"}

\* C4: a failed search call raises nothing to the caller, and every query of
\* the built list is still issued, in order, once each.
C4_SearchFailuresTolerated ==
    SearchCallFailed =>
        /\ r_response.status # 500
        /\ r_pc # "searching" => r_issued = r_queries

\* C7: the returned list is ordered by non-increasing confidence percentage,
\* and leads of equal percentage keep the order of their raw records.
C7_SortedStable ==
    (r_pc = "responded" /\ r_response.status = 200 /\ r_parsed # <<>>) =>
        LET leads == r_response.leads
            extracted == StructureAll(r_parsed, r_icp)
        IN  /\ Len(leads) = Len(extracted)
            /\ \A i \in 1..(Len(leads) - 1) : SortKey(leads[i]) >= SortKey(leads[i + 1])
            /\ \A c \in 0..100 :
                  SelectSeq(leads, LAMBDA x : SortKey(x) = c)
                  = SelectSeq(extracted, LAMBDA x : SortKey(x) = c)

\* Three leads came back: the last one extracted first, then two different
\* leads of equal percentage.
C7_Witness ==
    /\ r_pc = "responded"
    /\ Len(r_response.leads) = 3
    /\ Len(r_parsed) = 3
    /\ r_response.leads[1] = structure_lead_data(r_parsed[3], r_icp)
    /\ SortKey(r_response.leads[1]) > SortKey(r_response.leads[2])
    /\ SortKey(r_response.leads[2]) = SortKey(r_response.leads[3])
    /\ r_response.leads[2] # r_response.leads[3]

-----------------------------------------------------------------------------
(* Claims about structure_lead_data (checked under SpecStructure)          *)

Structured == t_out.done /\ t_out.raised = "none"

\* C11: the record with every field absent gives a Lead with every key, in
\* which every contact field and every company field (revenue, founding year,
\* recent news and the social profile URLs among them) is "Not found" or
\* "N/A", and whose data completeness status is "Limited".
C11_AllAbsentGivesSentinels ==
    (t_out.done /\ DOMAIN t_raw = {}) =>
        /\ t_out.raised = "none"
        /\ DOMAIN t_out.lead = {"lead", "company", "ai_analysis", "metadata"}
        /\ t_out.lead.metadata.data_completeness.status = "Limited"
        /\ \A k \in {"email", "phone", "linkedin"} :
              t_out.lead.lead.contact_details[k] \in Sentinels
        /\ \A k \in {"name", "about", "industry", "size", "location", "website",
                      "address", "valuation", "tech_stack"} :
              t_out.lead.company[k] \in Sentinels
        /\ \A k \in {"email", "phone"} : t_out.lead.company.contact_info[k] \in Sentinels
        /\ \A k \in {"revenue", "founded", "recent_news"} :
              t_out.lead.company[k] \in Sentinels
        /\ \A k \in {"twitter", "facebook", "github"} :
              t_out.lead.lead.social_profiles[k] \in Sentinels

\* The raw record's social_profiles is missing or is no mapping.
NoProfileMapping ==
    "social_profiles" \in DOMAIN t_raw => t_raw["social_profiles"].kind # "dict"

\* C12: structure_lead_data raises nothing and returns a Lead for every raw
\* record: social_profiles that is absent, a string, null or a list counts as
\* the empty mapping, and a lead_name or company_website that is no string
\* is structured all the same.
C12_NeverRaises ==
    t_out.done =>
        /\ t_out.raised = "none"
        /\ DOMAIN t_out.lead = {"lead", "company", "ai_analysis", "metadata"}
        /\ NoProfileMapping =>
              \A k \in {"twitter", "facebook", "github"} :
                  t_out.lead.lead.social_profiles[k] = <<>>

StripPrefix(s, prefix) ==
    IF Len(s) >= Len(prefix) /\ SubSeq(s, 1, Len(prefix)) = prefix
    THEN SubSeq(s, Len(prefix) + 1, Len(s)) ELSE s

\* The website without its scheme, its leading "www." and its path.
BareDomain(url) ==
    Split(StripPrefix(StripPrefix(StripPrefix(url, Https), Http), Www), "/")[1]

\* The raw record has no usable email: absent, empty or a sentinel.
NoUsableEmail == ~RealValue(t_raw, "email")

\* The raw record names a person by at least two space-separated tokens.
HasFullName ==
    /\ RealValue(t_raw, "lead_name")
    /\ t_raw["lead_name"] \notin NonStrings
    /\ Len(SplitWords(t_raw["lead_name"])) >= 2

\* The raw record has a real company website.
HasRealWebsite ==
    /\ RealValue(t_raw, "company_website")
    /\ t_raw["company_website"] \notin NonStrings

\* first.last@domain for the name and the website of the raw record.
FirstDotLast ==
    LET words == SplitWords(Lower(t_raw["lead_name"]))
    IN  words[1] \o <<".">> \o words[Len(words)] \o <<"@">>
        \o BareDomain(t_raw["company_website"])

\* C13: the email is enriched exactly when the raw record has no usable
\* email, a name of two or more tokens and a real company website: then the
\* lead's email is first.last@<bare domain>, three patterns are kept and
\* email_generated is true; otherwise email_generated is false, there are no
\* patterns and the lead's email is the raw record's own or "Not found".
C13_EnrichmentExactlyWhenPossible ==
    Structured =>
        LET contact == t_out.lead.lead.contact_details
            generated == t_out.lead.metadata.email_generated
        IN  IF NoUsableEmail /\ HasFullName /\ HasRealWebsite
            THEN /\ generated
                 /\ contact.email = FirstDotLast
                 /\ Len(contact.email_patterns) = 3
                 /\ contact.email_patterns[1] = contact.email
            ELSE /\ ~generated
                 /\ contact.email_patterns = <<>>
                 /\ contact.email = IF Truthy(t_raw, "email") THEN t_raw["email"]
                                    ELSE NotFound

\* A value that is neither empty nor a sentinel.
IsReal(v) == v # <<>> /\ v \notin Sentinels

\* C15: contact_quality is "High" exactly when the lead's email is no
\* sentinel (not "Not found", not "N/A", not empty) or its phone is no
\* sentinel; otherwise it is "Low".
C15_ContactQualityHighIffReal ==
    Structured =>
        LET contact == t_out.lead.lead.contact_details
            quality == t_out.lead.metadata.contact_quality
        IN  /\ quality \in {"High", "Low"}
            /\ (quality = "High") <=> (IsReal(contact.email) \/ IsReal(contact.phone))

-----------------------------------------------------------------------------
(* More claims about the search-leads request (checked under Spec)         *)

\* C14: every response is a well-formed envelope: a success carries
\* success = true, icp_name, timestamp, leads and total_leads = the number of
\* leads; a failure (validation error or internal error) carries
\* success = false and an error message.
C14_WellFormedEnvelope ==
    r_pc = "responded" =>
        IF r_response.status = 200
        THEN /\ {"success", "icp_name", "timestamp", "leads", "total_leads"}
                   \subseteq r_response.keys
             /\ r_response.success
             /\ r_response.icp_name = r_icp["icp_name"]
             /\ r_response.total_leads = Len(r_response.leads)
        ELSE /\ {"success", "error"} \subseteq r_response.keys
             /\ ~r_response.success
             /\ r_response.error # <<>>

-----------------------------------------------------------------------------
(* Claims about build_search_queries (checked under SpecQueries)           *)

\* The places, among the values written into a query, of the fields the
\* query requires: all three for the profile search, the first two for the
\* others (the region of queries 3, 4, 6 and 7 may be empty).
RequiredArgs(query) == IF query.template = 1 THEN {1, 2, 3} ELSE {1, 2}

\* C16: build_search_queries returns between 0 and 8 queries, in the fixed
\* order of the templates, none with an empty required field (primary title,
\* industry, primary region, company size or first technology, as the query
\* uses them); an ICP with an empty industry yields no queries.
C16_QueriesBoundedOrderedNonEmpty ==
    q_out.done =>
        /\ Len(q_out.queries) \in 0..8
        /\ q_out.queries = build_search_queries(q_icp)
        /\ \A i \in 1..(Len(q_out.queries) - 1) :
              q_out.queries[i].template < q_out.queries[i + 1].template
        /\ Get(q_icp, "industry", <<>>) = <<>> => q_out.queries = <<>>
        /\ \A i \in 1..Len(q_out.queries) :
              \A j \in RequiredArgs(q_out.queries[i]) : q_out.queries[i].args[j] # <<>>

-----------------------------------------------------------------------------
(* Claims about the search loop (checked under SpecSearchLoop)             *)

\* C17: the search calls of a request are started one at a time in the order
\* of the built list: never two in flight, and each call after the first is
\* started right after the call before it has returned (with results, with
\* none or with a failure) and the pacing delay after it has elapsed.
C17_OneSearchAtATime ==
    /\ Cardinality(m_inflight) <= 1
    /\ \A p \in 1..Len(m_events) :
          m_events[p].kind = "start" =>
              \/ p = 1 /\ m_events[p].query = 1
              \/ /\ p >= 4
                 /\ m_events[p - 1] = Event("slept", m_events[p].query - 1, "none")
                 /\ m_events[p - 2].kind = "return"
                 /\ m_events[p - 2].query = m_events[p].query - 1
                 /\ m_events[p - 3] = Event("start", m_events[p].query - 1, "none")

\* A call that failed was followed, after the pacing delay, by the next call.
C17_Witness ==
    /\ Len(m_events) >= 4
    /\ m_events[2] = Event("return", 1, "failure")
    /\ m_events[3].kind = "slept"
    /\ m_events[4] = Event("start", 2, "none")
    /\ m_inflight = {2}

-----------------------------------------------------------------------------
(* More claims about calculate_confidence_score (checked under SpecScore)  *)

UpperChar(c) ==
    CASE c = "a" -> <<"A">>
      [] c = "c" -> <<"C">>
      [] c = "e" -> <<"E">>
      [] c = "f" -> <<"F">>
      [] c = "i" -> <<"I">>
      [] c = "n" -> <<"N">>
      [] c = "o" -> <<"O">>
      [] c = "p" -> <<"P">>
      [] c = "s" -> <<"S">>
      [] c = "t" -> <<"T">>
      [] c = "u" -> <<"U">>
      [] c = "v" -> <<"V">>
      [] c = "x" -> <<"X">>
      [] c = SharpS -> <<"S", "S">>
      [] OTHER -> <<c>>

\* str.upper(), by which a caller writes the upper-case variant of a text.
RECURSIVE Upper(_)
Upper(s) == IF s = <<>> THEN <<>> ELSE UpperChar(Head(s)) \o Upper(Tail(s))

\* The text, its upper-case variant and its lower-case variant.
CaseVariants(v) == {v, Upper(v), Lower(v)}

\* The dicts got from d by writing the values of some of `keys` in another case.
CaseVariantsOf(d, keys) ==
    LET ks == keys \cap DOMAIN d
        texts == UNION {CaseVariants(d[k]) : k \in ks}
    IN  {[k \in DOMAIN d |-> IF k \in ks THEN f[k] ELSE d[k]] :
             f \in {g \in [ks -> texts] : \A k \in ks : g[k] \in CaseVariants(d[k])}}

SameScore(c) ==
    /\ c.percentage = s_conf.percentage
    /\ c.grade = s_conf.grade
    /\ c.matches = s_conf.matches

\* C18: writing the lead's industry, designation and location, or the ICP's
\* industry, job titles and regions, in upper case or in lower case leaves
\* the percentage, the grade and the matched criteria unchanged.
C18_CaseInsensitive ==
    s_conf.done =>
        /\ \A lead \in CaseVariantsOf(s_lead, {"company_industry", "designation",
                                                "company_location"}) :
              SameScore(calculate_confidence_score(lead, s_icp))
        /\ \A icp \in CaseVariantsOf(s_icp, {"industry", "target_job_title",
                                              "geographic_region"}) :
              SameScore(calculate_confidence_score(s_lead, icp))

\* The ICP title tokens as the function reads them: lower-cased, split at
\* the commas, each stripped.
TitleTokens(icp_criteria) ==
    LET target_titles == Split(Lower(Get(icp_criteria, "target_job_title", <<>>)), ",")
    IN  {Strip(target_titles[i]) : i \in 1..Len(target_titles)}

\* A non-empty designation that contains, or is contained in, a non-empty
\* ICP title token.
RealTitleMatch(lead_data, icp_criteria) ==
    LET lead_title == Lower(Get(lead_data, "designation", <<>>))
    IN  /\ lead_title # <<>>
        /\ \E title \in TitleTokens(icp_criteria) :
               /\ title # <<>>
               /\ (IsSubstr(title, lead_title) \/ IsSubstr(lead_title, title))

\* The points of the criteria other than the job title that were matched.
OtherPoints(matches) ==
    (IF Has(matches, "Industry match") THEN IndustryPoints ELSE 0)
    + (IF Has(matches, "Location match") THEN LocationPoints ELSE 0)
    + (IF Has(matches, "Email available") THEN EmailPoints ELSE 0)
    + (IF Has(matches, "LinkedIn available") THEN LinkedInPoints ELSE 0)
    + (IF Has(matches, "Company size match") THEN SizePoints ELSE 0)

\* C21: the 'Job title match' label and the 25 job-title points are given
\* only when the lead has a non-empty designation that contains, or is
\* contained in, a non-empty ICP title token; a lead whose designation is
\* missing or empty gets neither, whatever the ICP titles are.
C21_TitlePointsOnlyForRealMatch ==
    s_conf.done =>
        /\ Has(s_conf.matches, "Job title match") => RealTitleMatch(s_lead, s_icp)
        /\ s_conf.percentage # OtherPoints(s_conf.matches)
               => RealTitleMatch(s_lead, s_icp)
        /\ Get(s_lead, "designation", <<>>) = <<>>
               => /\ ~Has(s_conf.matches, "Job title match")
                  /\ s_conf.percentage = OtherPoints(s_conf.matches)

-----------------------------------------------------------------------------
(* Claims about concurrent requests (checked under SpecConcurrent)         *)

\* C19: with two requests at the same time, each request searches only with
\* the client it created; no cleanup closes the session of a client another
\* request is searching with; and the client a request created is closed (or
\* never opened a session) once the request has responded.
C19_OwnClientOnly ==
    \A r \in Requests :
        /\ h_pc[r] = "in_call" => h_using[r] = h_own[r]
        /\ h_pc[r] = "in_call" => k_session[h_using[r]] = "open"
        /\ (h_pc[r] = "responded" /\ h_own[r] # "none") => k_session[h_own[r]] # "open"

-----------------------------------------------------------------------------
(* More claims about BrightDataMCP (checked under SpecCallTool)            *)

\* C20: the client posts a tools/call request only after an initialize
\* request of the same client has succeeded, whatever the server answers.
C20_NoToolCallBeforeInitialize == c_hist.sends > 0 => c_hist.init_ok

=============================================================================
